---- MODULE Spec2Model ----
(***************************************************************************)
(* beef::Cow (src/src/lib.rs): a copy-on-write container that stores one   *)
(* reference (pointer + length) and an Option<NonZeroUsize> capacity.      *)
(*                                                                         *)
(* The model holds the allocator's heap, the static (borrowed) storage,    *)
(* and the values a client program holds, each in a place (a variable of   *)
(* the client): containers (Cow), owned values (String / Vec<T>) and       *)
(* standard two-variant Cows.  A conversion that consumes a value leaves   *)
(* its result in the same place.  One action per                           *)
(* operation of the container; the allocator's part of std (alloc on       *)
(* to_owned, dealloc on Vec drop, Vec::from_raw_parts) is modelled by what *)
(* it does to the heap.  str and [T] share one model: both impls of Beef   *)
(* are the same code modulo the element type (T is not zero-sized).        *)
(***************************************************************************)
EXTENDS Integers, Sequences, FiniteSets

\* ------------------------------------------------------------- bounds
MaxAddr == 2      \* heap addresses the allocator hands out: 1..MaxAddr
MaxLen  == 1      \* longest data
MaxCap  == 2      \* largest reserved capacity (> MaxLen: spare capacity)

Elems   == {1, 2}
Addrs   == 1..MaxAddr
\* The client's variables: it holds at most two values at a time (enough for
\* a container and its clone, or two containers to compare; with {1, 2, 3}
\* the properties below hold as well, over 492,128 states).
Places  == {1, 2}

\* ------------------------------------------------------------- memory
\* The pointer of an owned value that reserved nothing (capacity 0).
Dangling == 0

\* Static data a client can borrow: n copies of e, n <= MaxLen.
Lits == {[i \in 1..n |-> e] : n \in 0..MaxLen, e \in Elems}

\* The address of a literal in static storage (negative: not on the heap).
StaticPtr(d) == -(1 + 10 * Len(d) + (IF Len(d) = 0 THEN 0 ELSE d[1]))

StaticPtrs == {StaticPtr(d) : d \in Lits}

StaticMem(p) == CHOOSE d \in Lits : StaticPtr(d) = p

Null == [kind |-> "none"]

DeadBlock == [live |-> FALSE, data |-> <<>>, cap |-> 0, owed |-> FALSE]

\* What a read of invalid memory (freed, out of the block) yields.
Uninit(n) == [i \in 1..n |-> 0]

\* The data a reference (pointer, length) shows in memory m.
Read(m, view) ==
    IF view.len = 0 THEN <<>>
    ELSE IF view.ptr \in StaticPtrs
    THEN IF view.len <= Len(StaticMem(view.ptr))
         THEN SubSeq(StaticMem(view.ptr), 1, view.len)
         ELSE Uninit(view.len)
    ELSE IF view.ptr \in Addrs /\ m[view.ptr].live
            /\ view.len <= Len(m[view.ptr].data)
    THEN SubSeq(m[view.ptr].data, 1, view.len)
    ELSE Uninit(view.len)

FreeAddrs(m) == {a \in Addrs : ~m[a].live}

\* The allocator hands out block a with room for k elements, holding d.
Alloc(m, a, d, k) ==
    [m EXCEPT ![a] = [live |-> TRUE, data |-> d, cap |-> k, owed |-> FALSE]]

\* An owned value: String / Vec<T> = (pointer, length, capacity).
VecRec(p, l, k) == [kind |-> "vec", ptr |-> p, len |-> l, cap |-> k]

VecView(val) == [ptr |-> val.ptr, len |-> val.len]

\* Dropping an owned value: a value that reserved nothing frees nothing.
DropVecMem(m, val) ==
    IF val.cap = 0 THEN m
    ELSE IF val.ptr \in Addrs /\ m[val.ptr].live
    THEN [m EXCEPT ![val.ptr] = DeadBlock]
    ELSE m

\* The undefined behaviour a drop of val runs into, if any.
DropVecUB(m, val) ==
    IF val.cap = 0 THEN {}
    ELSE IF val.ptr \notin Addrs THEN {"invalid_free"}
    ELSE IF ~m[val.ptr].live THEN {"double_free"}
    ELSE IF m[val.ptr].cap # val.cap THEN {"invalid_free"}
    ELSE {}

\* ------------------------------------------------------------- Beef
None == [some |-> FALSE, val |-> 0]

Some(n) == [some |-> TRUE, val |-> n]

NonZeroUsizeNew(n) == IF n = 0 THEN None ELSE Some(n)

\* Mutant of BeefCapacity: the length taken for the capacity.
BeefCapacityLen(owned) == NonZeroUsizeNew(owned.len)

\* <str as Beef>::capacity, <[T] as Beef>::capacity
BeefCapacity(owned) == NonZeroUsizeNew(owned.cap)

\* Mutant of Rebuild: the value rebuilt with its length as its capacity.
RebuildExact(inner, capacity) == VecRec(inner.ptr, inner.len, inner.len)

\* <str as Beef>::rebuild, <[T] as Beef>::rebuild: from_raw_parts
Rebuild(inner, capacity) == VecRec(inner.ptr, inner.len, capacity)

\* from_raw_parts' safety precondition: the view is exactly a live block
\* that a container absorbed and nobody has rebuilt since.
RebuildUB(m, inner, capacity) ==
    IF inner.ptr \in Addrs /\ m[inner.ptr].live /\ m[inner.ptr].owed
       /\ m[inner.ptr].cap = capacity /\ Len(m[inner.ptr].data) = inner.len
    THEN {} ELSE {"rebuild_precondition"}

\* The heap after a rebuild: the block is owned by the rebuilt value again.
RebuildMem(m, inner) ==
    IF inner.ptr \in Addrs /\ m[inner.ptr].live
    THEN [m EXCEPT ![inner.ptr].owed = FALSE]
    ELSE m

\* ToOwned::to_owned of a view (<[T]>::to_vec: Vec::with_capacity(len), then
\* the elements copied): a fresh value that reserved exactly the view's
\* length, in block a; a view of length 0 reserves nothing.
ToOwned(inner, a) ==
    IF inner.len = 0 THEN VecRec(Dangling, 0, 0)
    ELSE VecRec(a, inner.len, inner.len)

ToOwnedMem(m, inner, a) ==
    IF inner.len = 0 THEN m ELSE Alloc(m, a, Read(m, inner), inner.len)

ToOwnedAddrs(m, inner) == IF inner.len = 0 THEN {Dangling} ELSE FreeAddrs(m)

\* ------------------------------------------------------------- state
VARIABLES
    mem,     \* the heap: address -> block
    vals,    \* the client's values: place -> container, owned value, std Cow
    ub,      \* undefined behaviour run into so far
    last     \* the last operation: its name, the value it took (the source,
             \* for a clone), the place that value was in, the place of its
             \* result, and the number of blocks it gave back to the allocator

vars == <<mem, vals, ub, last>>

Op(name, self, from, at, frees) ==
    [op |-> name, self |-> self, from |-> from, at |-> at, frees |-> frees]

\* The blocks live in m and no longer in m2.
Frees(m, m2) == Cardinality({a \in Addrs : m[a].live /\ ~m2[a].live})

Init ==
    /\ mem = [a \in Addrs |-> DeadBlock]
    /\ vals = [i \in Places |-> Null]
    /\ ub = {}
    /\ last = Op("init", Null, 0, 0, 0)

\* The client names a new value by the first free place.
IsFirstFree(i) == vals[i] = Null /\ \A j \in Places : j < i => vals[j] # Null

\* ------------------------------------------------------------- Cow
\* struct Cow { inner: &T, capacity: Option<NonZeroUsize> }.  The other
\* fields are history, read by no operation: how the container was built,
\* the value or reference it was given, the data that value showed, and for
\* a clone of a container with capacity the storage of that container (for
\* any other container Dangling).
CowRec(inner, capacity, how, given, data) ==
    [kind |-> "cow", inner |-> inner, capacity |-> capacity,
     how |-> how, given |-> given, data |-> data, src |-> Dangling]

\* Mutant of CowOwned: the capacity is not recorded.
CowOwnedNoCapacity(m, val) ==
    CowRec(VecView(val), None, "owned", val, Read(m, VecView(val)))

\* Cow::owned: the view and the capacity of val; val itself is forgotten.
CowOwned(m, val) ==
    CowRec(VecView(val), BeefCapacity(val), "owned", val, Read(m, VecView(val)))

\* The heap after Cow::owned(val): mem::forget frees nothing; a block that
\* val reserved is from now on the container's to rebuild.
CowOwnedMem(m, val) ==
    IF BeefCapacity(val).some /\ val.ptr \in Addrs
    THEN [m EXCEPT ![val.ptr].owed = TRUE]
    ELSE m

\* Mutant of CowBorrowed: the reference's length recorded as a capacity.
CowBorrowedWithCapacity(m, val) ==
    CowRec(val, NonZeroUsizeNew(val.len), "borrowed",
           VecRec(val.ptr, val.len, 0), Read(m, val))

\* Cow::borrowed
CowBorrowed(m, val) ==
    CowRec(val, None, "borrowed", VecRec(val.ptr, val.len, 0), Read(m, val))

\* std::borrow::Cow::Owned(val), Cow::Borrowed(view)
StdOwned(val) == [kind |-> "std", tag |-> "Owned", val |-> val]

StdBorrowed(view) ==
    [kind |-> "std", tag |-> "Borrowed", val |-> VecRec(view.ptr, view.len, 0)]

\* Deref::deref, AsRef::as_ref, Borrow::borrow
Deref(cow) == cow.inner

\* Mutant of CowEq: the references compared, not what they refer to.
CowEqByAddress(m, cow, other) == cow.inner = other

\* PartialEq<U> for Cow, U: AsRef<T>: self.inner == other.as_ref()
CowEq(m, cow, other) == Read(m, cow.inner) = Read(m, other)

\* PartialEq<Cow> for str / &str / String / [T] / &[T] / Vec<T>
RefEqCow(m, self, cow) == Read(m, self) = Read(m, cow.inner)

\* What Hash for [T] feeds a hasher: the length, then the elements (for
\* str: the bytes, then a terminator; either way a function of the data).
HashFeed(m, view) == <<view.len>> \o Read(m, view)

RECURSIVE Finish(_, _)
\* A hasher: folds what it is fed into 16 bits.
Finish(h, feed) ==
    IF feed = <<>> THEN h
    ELSE Finish((h * 31 + Head(feed)) % 65536, Tail(feed))

HashRef(m, view) == Finish(7, HashFeed(m, view))

\* Mutant of CowHash: the capacity hashed after the data.
CowHashWithCapacity(m, cow) ==
    Finish(7, HashFeed(m, cow.inner) \o <<cow.capacity.val>>)

\* Hash for Cow: self.inner.hash(state)
CowHash(m, cow) == HashRef(m, cow.inner)

\* ------------------------------------------------------------- client
\* String::from(lit) / String::with_capacity(k) + push_str(lit): an owned
\* value holding d with k >= len(d) reserved; k = 0 reserves nothing.
NewVec(i, d, k) ==
    /\ IsFirstFree(i)
    /\ \E a \in (IF k = 0 THEN {Dangling} ELSE FreeAddrs(mem)) :
        /\ mem' = (IF k = 0 THEN mem ELSE Alloc(mem, a, d, k))
        /\ vals' = [vals EXCEPT ![i] = VecRec(a, Len(d), k)]
    /\ last' = Op("new", Null, 0, i, 0)
    /\ UNCHANGED ub

\* drop(String) / drop(Vec<T>)
DropVec(i) ==
    /\ vals[i].kind = "vec"
    /\ mem' = DropVecMem(mem, vals[i])
    /\ ub' = ub \cup DropVecUB(mem, vals[i])
    /\ vals' = [vals EXCEPT ![i] = Null]
    /\ last' = Op("drop_vec", vals[i], i, i, Frees(mem, mem'))

\* Cow::owned(val), From<String>, From<Vec<T>>
Owned(i) ==
    /\ vals[i].kind = "vec"
    /\ vals' = [vals EXCEPT ![i] = CowOwned(mem, vals[i])]
    /\ mem' = CowOwnedMem(mem, vals[i])
    /\ last' = Op("owned", vals[i], i, i, 0)
    /\ UNCHANGED ub

\* Cow::borrowed(val), From<&T>, of a literal d
Borrowed(i, d) ==
    LET val == [ptr |-> StaticPtr(d), len |-> Len(d)] IN
    /\ IsFirstFree(i)
    /\ vals' = [vals EXCEPT ![i] = CowBorrowed(mem, val)]
    /\ last' = Op("borrowed", Null, 0, i, 0)
    /\ UNCHANGED <<mem, ub>>

\* Mutant of IntoOwned: self is not forgotten, so its destructor runs on return.
IntoOwnedNotForgotten(i) ==
    LET self == vals[i] IN
    /\ self.kind = "cow"
    /\ IF self.capacity.some
       THEN LET ret == Rebuild(self.inner, self.capacity.val)
                m1 == RebuildMem(mem, self.inner) IN
            /\ vals' = [vals EXCEPT ![i] = ret]
            /\ mem' = DropVecMem(RebuildMem(m1, self.inner), ret)
            /\ ub' = ub \cup RebuildUB(mem, self.inner, self.capacity.val)
                        \cup RebuildUB(m1, self.inner, self.capacity.val)
                        \cup DropVecUB(m1, ret)
       ELSE \E a \in ToOwnedAddrs(mem, self.inner) :
            /\ vals' = [vals EXCEPT ![i] = ToOwned(self.inner, a)]
            /\ mem' = ToOwnedMem(mem, self.inner, a)
            /\ ub' = ub
    /\ last' = Op("into_owned", vals[i], i, i, 0)

\* Mutant of IntoOwned: the value is rebuilt whether or not there is a
\* capacity, with the length for a capacity when there is none.
IntoOwnedAlwaysRebuilds(i) ==
    LET self == vals[i]
        capacity == IF self.capacity.some THEN self.capacity.val
                    ELSE self.inner.len IN
    /\ self.kind = "cow"
    /\ vals' = [vals EXCEPT ![i] = Rebuild(self.inner, capacity)]
    /\ mem' = RebuildMem(mem, self.inner)
    /\ ub' = ub \cup RebuildUB(mem, self.inner, capacity)
    /\ last' = Op("into_owned", vals[i], i, i, 0)

\* Cow::into_owned
IntoOwned(i) ==
    LET self == vals[i] IN
    /\ self.kind = "cow"
    /\ IF self.capacity.some
       THEN /\ vals' = [vals EXCEPT ![i] = Rebuild(self.inner, self.capacity.val)]
            /\ mem' = RebuildMem(mem, self.inner)
            /\ ub' = ub \cup RebuildUB(mem, self.inner, self.capacity.val)
       ELSE \E a \in ToOwnedAddrs(mem, self.inner) :
            /\ vals' = [vals EXCEPT ![i] = ToOwned(self.inner, a)]
            /\ mem' = ToOwnedMem(mem, self.inner, a)
            /\ ub' = ub
    /\ last' = Op("into_owned", vals[i], i, i, 0)

\* Drop for Cow
DropCow(i) ==
    LET self == vals[i] IN
    /\ self.kind = "cow"
    /\ vals' = [vals EXCEPT ![i] = Null]
    /\ IF self.capacity.some
       THEN LET val == Rebuild(self.inner, self.capacity.val)
                m1 == RebuildMem(mem, self.inner) IN
            /\ mem' = DropVecMem(m1, val)
            /\ ub' = ub \cup RebuildUB(mem, self.inner, self.capacity.val)
                        \cup DropVecUB(m1, val)
       ELSE UNCHANGED <<mem, ub>>
    /\ last' = Op("drop", vals[i], i, i, Frees(mem, mem'))

\* Mutant of CloneCow: the fields are copied whether or not there is a
\* capacity.
CloneCowShallow(i, j) ==
    LET self == vals[i] IN
    /\ self.kind = "cow"
    /\ IsFirstFree(j)
    /\ mem' = mem
    /\ vals' = [vals EXCEPT ![j] =
                    [self EXCEPT !.src = IF self.capacity.some
                                         THEN self.inner.ptr ELSE self.src]]
    /\ last' = Op("clone", vals[i], i, j, 0)
    /\ UNCHANGED ub

\* Mutant of CloneCow: the data is copied into a new owned value whether or
\* not there is a capacity.
CloneCowAlwaysCopies(i, j) ==
    LET self == vals[i] IN
    /\ self.kind = "cow"
    /\ IsFirstFree(j)
    /\ \E a \in ToOwnedAddrs(mem, self.inner) :
            LET val == ToOwned(self.inner, a)
                m1 == ToOwnedMem(mem, self.inner, a) IN
            /\ mem' = CowOwnedMem(m1, val)
            /\ vals' = [vals EXCEPT ![j] =
                            [CowOwned(m1, val) EXCEPT !.src = self.inner.ptr]]
    /\ last' = Op("clone", vals[i], i, j, 0)
    /\ UNCHANGED ub

\* Clone for Cow
CloneCow(i, j) ==
    LET self == vals[i] IN
    /\ self.kind = "cow"
    /\ IsFirstFree(j)
    /\ IF self.capacity.some
       THEN \E a \in ToOwnedAddrs(mem, self.inner) :
            LET val == ToOwned(self.inner, a)
                m1 == ToOwnedMem(mem, self.inner, a) IN
            /\ mem' = CowOwnedMem(m1, val)
            /\ vals' = [vals EXCEPT ![j] =
                            [CowOwned(m1, val) EXCEPT !.src = self.inner.ptr]]
       ELSE /\ mem' = mem
            /\ vals' = [vals EXCEPT ![j] = self]      \* Cow { ..*self }
    /\ last' = Op("clone", vals[i], i, j, 0)
    /\ UNCHANGED ub

\* StdCow::Owned(val): the client wraps an owned value
WrapStd(i) ==
    /\ vals[i].kind = "vec"
    /\ vals' = [vals EXCEPT ![i] = StdOwned(vals[i])]
    /\ last' = Op("wrap_std", vals[i], i, i, 0)
    /\ UNCHANGED <<mem, ub>>

\* From<StdCow> for Cow
FromStd(i) ==
    LET stdcow == vals[i] IN
    /\ stdcow.kind = "std"
    /\ IF stdcow.tag = "Borrowed"
       THEN /\ vals' = [vals EXCEPT ![i] = CowBorrowed(mem, VecView(stdcow.val))]
            /\ mem' = mem
       ELSE /\ vals' = [vals EXCEPT ![i] = CowOwned(mem, stdcow.val)]
            /\ mem' = CowOwnedMem(mem, stdcow.val)
    /\ last' = Op("from_std", vals[i], i, i, 0)
    /\ UNCHANGED ub

\* Mutant of IntoStd: always Owned(cow.into_owned()), a copy when the
\* capacity is absent.
IntoStdAlwaysOwned(i) ==
    LET cow == vals[i] IN
    /\ cow.kind = "cow"
    /\ IF cow.capacity.some
       THEN /\ vals' = [vals EXCEPT ![i] =
                            StdOwned(Rebuild(cow.inner, cow.capacity.val))]
            /\ mem' = RebuildMem(mem, cow.inner)
            /\ ub' = ub \cup RebuildUB(mem, cow.inner, cow.capacity.val)
       ELSE \E a \in ToOwnedAddrs(mem, cow.inner) :
            /\ vals' = [vals EXCEPT ![i] = StdOwned(ToOwned(cow.inner, a))]
            /\ mem' = ToOwnedMem(mem, cow.inner, a)
            /\ ub' = ub
    /\ last' = Op("into_std", vals[i], i, i, 0)

\* From<Cow> for StdCow
IntoStd(i) ==
    LET cow == vals[i] IN
    /\ cow.kind = "cow"
    /\ IF cow.capacity.some
       THEN /\ vals' = [vals EXCEPT ![i] =
                            StdOwned(Rebuild(cow.inner, cow.capacity.val))]
            /\ mem' = RebuildMem(mem, cow.inner)
            /\ ub' = ub \cup RebuildUB(mem, cow.inner, cow.capacity.val)
       ELSE /\ vals' = [vals EXCEPT ![i] = StdBorrowed(cow.inner)]
            /\ UNCHANGED <<mem, ub>>
    /\ last' = Op("into_std", vals[i], i, i, 0)

\* drop(StdCow): the owned variant drops its value, the borrowed one nothing
DropStd(i) ==
    LET stdcow == vals[i] IN
    /\ stdcow.kind = "std"
    /\ vals' = [vals EXCEPT ![i] = Null]
    /\ IF stdcow.tag = "Owned"
       THEN /\ mem' = DropVecMem(mem, stdcow.val)
            /\ ub' = ub \cup DropVecUB(mem, stdcow.val)
       ELSE UNCHANGED <<mem, ub>>
    /\ last' = Op("drop_std", vals[i], i, i, Frees(mem, mem'))

Next ==
    \/ \E i \in Places, d \in Lits, k \in 0..MaxCap :
          Len(d) <= k /\ NewVec(i, d, k)
    \/ \E i \in Places : DropVec(i)
    \/ \E i \in Places : Owned(i)
    \/ \E i \in Places, d \in Lits : Borrowed(i, d)
    \/ \E i \in Places : IntoOwned(i)
    \/ \E i \in Places : DropCow(i)
    \/ \E i \in Places, j \in Places : CloneCow(i, j)
    \/ \E i \in Places : WrapStd(i)
    \/ \E i \in Places : FromStd(i)
    \/ \E i \in Places : IntoStd(i)
    \/ \E i \in Places : DropStd(i)

Spec == Init /\ [][Next]_vars

\* ------------------------------------------------------------- reading the state
IsCow(val) == val.kind = "cow"

Cows == {i \in Places : IsCow(vals[i])}

\* The reference to the literal d.
Ref(d) == [ptr |-> StaticPtr(d), len |-> Len(d)]

\* Value val is the owner of heap block a: the one that has to free it.
OwnsBlock(val, a) ==
    CASE val.kind = "cow" -> val.capacity.some /\ val.inner.ptr = a
      [] val.kind = "vec" -> val.cap > 0 /\ val.ptr = a
      [] val.kind = "std" -> val.tag = "Owned" /\ val.val.cap > 0 /\ val.val.ptr = a
      [] OTHER -> FALSE

Owners(a) == {i \in Places : OwnsBlock(vals[i], a)}

LiveBlocks(m) == {a \in Addrs : m[a].live}

\* The operation named name has just acted on place i.
Did(name, i) == last'.op = name /\ last'.at = i

\* ------------------------------------------------------------- C1
\* C1: every heap block is freed exactly once.  No operation runs into a
\* double free, an invalid free or a rebuild of a block that is not the
\* container's to rebuild; a block is live exactly while one value owns it (so
\* it is freed when its last owner goes, and never leaks); and it is owed a
\* rebuild exactly while its owner is a container (one rebuild per absorption,
\* in drop or in a conversion).
NoDoubleFreeNoLeak ==
    /\ ub = {}
    /\ \A a \in Addrs :
        /\ Cardinality(Owners(a)) = (IF mem[a].live THEN 1 ELSE 0)
        /\ mem[a].owed <=> \E i \in Owners(a) : IsCow(vals[i])

\* A container's drop has just freed the block it had absorbed, and the heap
\* is back to empty.
DroppedAbsorbed ==
    /\ last.op = "drop"
    /\ last.self.how = "owned" /\ last.self.capacity.some
    /\ last.frees = 1
    /\ LiveBlocks(mem) = {}
    /\ \A i \in Places : vals[i] = Null

\* ------------------------------------------------------------- C2
\* C2: into_owned of a container built by Cow::owned(a) returns a's data with
\* a reserved capacity >= its length; when the container's capacity is present
\* the result is a itself: same block, same length, same capacity, no copy.
OwnedRoundTrip ==
    [][\A i \in Places :
        (Did("into_owned", i) /\ IsCow(vals[i]) /\ vals[i].how = "owned") =>
            LET c == vals[i]
                r == vals'[i] IN
            /\ r.kind = "vec"
            /\ Read(mem', VecView(r)) = c.data
            /\ r.len = Len(c.data)
            /\ r.cap >= Len(c.data)
            /\ c.capacity.some =>
                /\ r = c.given
                /\ mem'[r.ptr].live /\ mem'[r.ptr].cap = c.given.cap
                /\ LiveBlocks(mem') = LiveBlocks(mem)]_vars

\* into_owned has just handed back the value, with spare capacity, that the
\* container had been built from by Cow::owned.
RoundTripSpare ==
    /\ last.op = "into_owned"
    /\ last.self.how = "owned" /\ last.self.capacity.some
    /\ vals[last.at] = last.self.given
    /\ vals[last.at].len > 0
    /\ vals[last.at].cap > vals[last.at].len

\* ------------------------------------------------------------- C3
\* C3: a container built by Cow::borrowed(r) shows r itself (same address and
\* length, hence r's data) and has no capacity; dropping it frees nothing,
\* runs into no undefined behaviour and leaves the heap as it was.
BorrowTransparency ==
    /\ [](\A i \in Cows : vals[i].how = "borrowed" =>
            /\ Deref(vals[i]) = VecView(vals[i].given)
            /\ Read(mem, Deref(vals[i])) = vals[i].data
            /\ ~vals[i].capacity.some)
    /\ [][\A i \in Places :
            (Did("drop", i) /\ IsCow(vals[i]) /\ vals[i].how = "borrowed") =>
                /\ mem' = mem
                /\ ub' = ub
                /\ last'.frees = 0
                /\ Read(mem', vals[i].inner) = vals[i].data]_vars

\* A container borrowing non-empty data has just been dropped while a block
\* is live on the heap.
DroppedBorrowed ==
    /\ last.op = "drop"
    /\ last.self.how = "borrowed" /\ last.self.inner.len > 0
    /\ last.frees = 0
    /\ vals[last.at] = Null
    /\ LiveBlocks(mem) # {}

\* ------------------------------------------------------------- C4
\* C4: into_owned of a container without capacity returns a copy of the data
\* it shows, with reserved capacity >= its length, in a block that was free
\* before (data of length 0 reserves nothing); nothing else on the heap
\* changes and the borrowed data still reads the same.  With capacity
\* present into_owned allocates nothing.
IntoOwnedCopies ==
    [][\A i \in Places :
        (Did("into_owned", i) /\ IsCow(vals[i])) =>
            LET c == vals[i]
                r == vals'[i] IN
            IF c.capacity.some
            THEN LiveBlocks(mem') = LiveBlocks(mem) /\ r.ptr = c.inner.ptr
            ELSE /\ r.kind = "vec"
                 /\ Read(mem', VecView(r)) = Read(mem, c.inner)
                 /\ r.len = c.inner.len
                 /\ r.cap >= r.len
                 /\ r.len > 0 =>
                        /\ r.ptr \in Addrs /\ r.ptr # c.inner.ptr
                        /\ ~mem[r.ptr].live /\ mem'[r.ptr].live
                 /\ r.len = 0 => r.cap = 0 /\ mem' = mem
                 /\ \A a \in Addrs \ {r.ptr} : mem'[a] = mem[a]
                 /\ Read(mem', c.inner) = Read(mem, c.inner)
                 /\ ub' = ub]_vars

\* into_owned has just copied borrowed data: its result owns a block of the
\* heap that holds what the literal holds, and that reserved exactly its
\* length.
CopiedBorrow ==
    /\ last.op = "into_owned"
    /\ last.self.how = "borrowed" /\ ~last.self.capacity.some
    /\ vals[last.at].kind = "vec"
    /\ vals[last.at].len > 0
    /\ vals[last.at].cap = vals[last.at].len
    /\ mem[vals[last.at].ptr].live
    /\ mem[vals[last.at].ptr].data = StaticMem(last.self.inner.ptr)

\* ------------------------------------------------------------- C5
\* C5: a clone of a container with capacity holds, when made, the data its
\* source shows, in storage other than the source's; ever after it shows
\* that data, whatever becomes of the source and of the source's storage,
\* and the block it owns is live and owned by nothing else.
CloneIndependence ==
    /\ [](\A i \in Cows : vals[i].src # Dangling =>
            /\ Read(mem, Deref(vals[i])) = vals[i].data
            /\ vals[i].capacity.some =>
                /\ mem[vals[i].inner.ptr].live
                /\ Owners(vals[i].inner.ptr) = {i})
    /\ [][\A i \in Places, j \in Places :
            (Did("clone", j) /\ last'.from = i /\ IsCow(vals[i])
                /\ vals[i].capacity.some) =>
                /\ IsCow(vals'[j])
                /\ vals'[j].data = Read(mem, vals[i].inner)
                /\ vals'[j].capacity.some => vals'[j].inner.ptr # vals[i].inner.ptr
                /\ vals'[i] = vals[i]]_vars

\* A clone still shows its data although its source is gone and the source's
\* storage has been handed out again, to a value holding other data.
CloneOutlivesSource ==
    \E i \in Cows :
        /\ vals[i].src \in Addrs
        /\ vals[i].capacity.some
        /\ vals[i].src # vals[i].inner.ptr
        /\ mem[vals[i].src].live
        /\ mem[vals[i].src].data # vals[i].data
        /\ Read(mem, Deref(vals[i])) = vals[i].data

\* ------------------------------------------------------------- C6
\* C6: two containers compare equal exactly when the data they were built
\* from is equal, whatever their capacity fields; so do a container and a
\* plain reference, and a container and an owned value, in either order.
EqualityIgnoresRepresentation ==
    /\ \A i \in Cows, j \in Cows :
        CowEq(mem, vals[i], Deref(vals[j])) <=> vals[i].data = vals[j].data
    /\ \A i \in Cows, d \in Lits :
        /\ CowEq(mem, vals[i], Ref(d)) <=> vals[i].data = d
        /\ RefEqCow(mem, Ref(d), vals[i]) <=> d = vals[i].data
    /\ \A i \in Cows, j \in Places : vals[j].kind = "vec" =>
        /\ CowEq(mem, vals[i], VecView(vals[j]))
                <=> vals[i].data = Read(mem, VecView(vals[j]))
        /\ RefEqCow(mem, VecView(vals[j]), vals[i])
                <=> Read(mem, VecView(vals[j])) = vals[i].data

\* borrowed(&d) and owned(copy of d), d not empty, are both held, and compare
\* equal both ways.
BorrowedEqualsOwned ==
    \E i \in Cows, j \in Cows :
        /\ vals[i].how = "borrowed" /\ ~vals[i].capacity.some
        /\ vals[j].how = "owned" /\ vals[j].capacity.some
        /\ vals[i].data = vals[j].data /\ vals[i].data # <<>>
        /\ CowEq(mem, vals[i], Deref(vals[j]))
        /\ CowEq(mem, vals[j], Deref(vals[i]))

\* ------------------------------------------------------------- C7
\* C7: a container feeds a hasher what the data it was built from feeds it,
\* so borrowed(r), r itself and owned(copy of r) hash alike; the capacity
\* does not count.
HashConsistency ==
    /\ \A i \in Cows :
        /\ HashFeed(mem, vals[i].inner) = <<Len(vals[i].data)>> \o vals[i].data
        /\ vals[i].how = "borrowed" =>
                CowHash(mem, vals[i]) = HashRef(mem, VecView(vals[i].given))
        /\ \A d \in Lits :
                vals[i].data = d => CowHash(mem, vals[i]) = HashRef(mem, Ref(d))
    /\ \A i \in Cows, j \in Cows :
        vals[i].data = vals[j].data =>
            CowHash(mem, vals[i]) = CowHash(mem, vals[j])

\* borrowed(r) and owned(copy of r), with spare capacity, are both held and
\* hash to what r hashes to.
BorrowedAndOwnedHashed ==
    \E i \in Cows, j \in Cows :
        /\ vals[i].how = "borrowed" /\ vals[i].data # <<>>
        /\ vals[j].how = "owned" /\ vals[j].capacity.some
        /\ vals[j].capacity.val > vals[j].inner.len
        /\ vals[i].data = vals[j].data
        /\ CowHash(mem, vals[i]) = HashRef(mem, VecView(vals[i].given))
        /\ CowHash(mem, vals[j]) = HashRef(mem, VecView(vals[i].given))

\* ------------------------------------------------------------- C8
\* C8: From<StdCow> maps Borrowed(v) to borrowed(v) and Owned(a) to owned(a);
\* From<Cow> for StdCow yields Owned of the absorbed value itself when the
\* capacity is present and Borrowed of the same view when it is absent,
\* frees and allocates nothing, and runs into no undefined behaviour; the
\* data shown is the same before and after.
StdInterop ==
    [][\A i \in Places :
        /\ (Did("from_std", i) /\ vals[i].kind = "std") =>
            LET s == vals[i]
                c == vals'[i] IN
            /\ IsCow(c)
            /\ Read(mem', c.inner) = Read(mem, VecView(s.val))
            /\ c.inner = VecView(s.val)
            /\ LiveBlocks(mem') = LiveBlocks(mem)
            /\ s.tag = "Borrowed" =>
                    c.how = "borrowed" /\ ~c.capacity.some /\ mem' = mem
            /\ s.tag = "Owned" =>
                    /\ c.how = "owned" /\ c.given = s.val
                    /\ c.capacity = NonZeroUsizeNew(s.val.cap)
        /\ (Did("into_std", i) /\ IsCow(vals[i])) =>
            LET c == vals[i]
                s == vals'[i] IN
            /\ s.kind = "std"
            /\ Read(mem', VecView(s.val)) = Read(mem, c.inner)
            /\ VecView(s.val) = c.inner
            /\ LiveBlocks(mem') = LiveBlocks(mem)
            /\ ub' = ub
            /\ c.capacity.some =>
                    /\ s.tag = "Owned"
                    /\ s.val.cap = c.capacity.val
                    /\ c.how = "owned" => s.val = c.given
                    /\ ~mem'[s.val.ptr].owed
            /\ ~c.capacity.some => s.tag = "Borrowed" /\ mem' = mem]_vars

\* A container has just become a standard Cow::Owned holding the value it had
\* absorbed, spare capacity included.
IntoStdOwned ==
    /\ last.op = "into_std"
    /\ last.self.capacity.some
    /\ vals[last.at].kind = "std"
    /\ vals[last.at].val = last.self.given
    /\ vals[last.at].tag = "Owned"
    /\ vals[last.at].val.len > 0
    /\ vals[last.at].val.cap > vals[last.at].val.len
    /\ mem[vals[last.at].val.ptr].live

\* ------------------------------------------------------------- C9
\* The view of a container refers to data that someone else owns.
BorrowsFromOther(c) == c.inner.ptr \in StaticPtrs

\* The container was handed a block of the heap to own.
HandedBlock(c) == c.how = "owned" /\ c.given.cap > 0

\* The view and the capacity describe exactly a live block that no other
\* value owns.
DescribesBlock(i) ==
    LET c == vals[i] IN
    /\ c.inner.ptr \in Addrs
    /\ mem[c.inner.ptr].live
    /\ mem[c.inner.ptr].cap = c.capacity.val
    /\ Len(mem[c.inner.ptr].data) = c.inner.len
    /\ c.given = Rebuild(c.inner, c.capacity.val)
    /\ Owners(c.inner.ptr) = {i}

\* C9 as claimed: the capacity is present iff the container owns an
\* allocation backing its view, absent iff it borrows data owned by someone
\* else, and when present it is the capacity of the block the view is of.
CapacityIffOwnsElseBorrows ==
    \A i \in Cows :
        /\ vals[i].capacity.some <=> HandedBlock(vals[i])
        /\ ~vals[i].capacity.some <=> BorrowsFromOther(vals[i])
        /\ vals[i].capacity.some => DescribesBlock(i)

\* C9, amended: the capacity is present iff the container owns a block of the
\* heap, and then view and capacity describe exactly that block; it is absent
\* iff the container borrows data owned by someone else or shows the empty
\* view of a value that reserved nothing (which it neither owns nor borrows).
CapacityPresence ==
    \A i \in Cows :
        /\ vals[i].capacity.some <=> HandedBlock(vals[i])
        /\ ~vals[i].capacity.some <=>
                \/ BorrowsFromOther(vals[i])
                \/ vals[i].inner.ptr = Dangling /\ vals[i].inner.len = 0
        /\ vals[i].capacity.some => DescribesBlock(i)
        /\ vals[i].capacity.some => vals[i].capacity.val > 0

\* A container built by Cow::owned from a value that reserved nothing: its
\* capacity is absent and it borrows from no one.
OwnedWithoutCapacity ==
    \E i \in Cows :
        /\ vals[i].how = "owned"
        /\ vals[i].given.cap = 0
        /\ ~vals[i].capacity.some
        /\ ~BorrowsFromOther(vals[i])

\* ------------------------------------------------------------- C10
\* Place j has just received a clone of the container in place i.
Cloned(i, j) == Did("clone", j) /\ last'.from = i /\ IsCow(vals[i])

\* The clone in place j owns a block that was free before, holding a copy
\* of what the source shows.
OwnsFreshCopy(i, j) ==
    LET c == vals[i]
        r == vals'[j] IN
    /\ IsCow(r)
    /\ r.capacity.some
    /\ r.inner.ptr \in Addrs
    /\ ~mem[r.inner.ptr].live /\ mem'[r.inner.ptr].live
    /\ mem'[r.inner.ptr].owed
    /\ Read(mem', r.inner) = Read(mem, c.inner)

\* The clone in place j shares the source's view and has no capacity.
SharesView(i, j) ==
    /\ IsCow(vals'[j])
    /\ ~vals'[j].capacity.some
    /\ vals'[j].inner = vals[i].inner
    /\ mem' = mem

\* C10 as claimed: a clone of a container with capacity has capacity and owns
\* a new block holding a copy; a clone of one without shares its view.
ClonePreservesOwnership ==
    [][\A i \in Places, j \in Places : Cloned(i, j) =>
        IF vals[i].capacity.some THEN OwnsFreshCopy(i, j)
        ELSE SharesView(i, j)]_vars

\* C10, amended: a clone of a container with capacity and data of length > 0
\* has capacity and owns a new block holding a copy; a clone of a container
\* with capacity and no data has no capacity, an empty view and no block; a
\* clone of a container without capacity shares its view.
ClonePreservesOwnershipOfData ==
    [][\A i \in Places, j \in Places : Cloned(i, j) =>
        IF vals[i].capacity.some /\ vals[i].inner.len > 0
        THEN OwnsFreshCopy(i, j)
        ELSE IF vals[i].capacity.some
        THEN /\ IsCow(vals'[j])
             /\ ~vals'[j].capacity.some
             /\ vals'[j].inner = [ptr |-> Dangling, len |-> 0]
             /\ mem' = mem
        ELSE SharesView(i, j)]_vars

\* A container that holds no data but has capacity has just been cloned, and
\* the clone has no capacity.
ClonedEmptyOwned ==
    /\ last.op = "clone"
    /\ last.self.capacity.some
    /\ last.self.inner.len = 0
    /\ IsCow(vals[last.at])
    /\ ~vals[last.at].capacity.some

====
